---- MODULE Spec2Model ----
(***************************************************************************)
(* A model of veneur's aggregation worker (src/worker.go): one Worker, its *)
(* dispatch loop (Work), ProcessMetric, ImportMetric, Flush and Stop, run  *)
(* by the goroutines that call them: the dispatch loop, a router sending   *)
(* on WorkChan, an importer, a flush coordinator and a stopper.            *)
(*                                                                         *)
(* The maps of a WorkerMetrics are Go reference values: Flush hands the    *)
(* old maps to its caller and installs new ones.  The model keeps them in  *)
(* a heap of WorkerMetrics cells, so that aliasing between the returned    *)
(* snapshot and the live one would show.                                   *)
(***************************************************************************)
EXTENDS Integers, Sequences, FiniteSets, TLC

\* ------------------------------------------------------------------ bounds
\* calls made on the worker in total: samples the router offers on WorkChan,
\* ImportMetric calls and Flush calls
MaxCalls == 3

\* ------------------------------------------------------------------ inputs
Types == {"counter", "gauge", "histogram", "set", "timer", "bogus"}
\* observation values: a number for counter/gauge/histogram/timer, a token for
\* set.  The router's n-th call carries the value n, which tells observations apart.
Values == 1..MaxCalls
SampleRates == {1}
\* encoded accumulator state carried by an import
Encodings == {"valid", "corrupt"}

\* MetricKey is embedded in UDPMetric and JSONMetric: m.Name and m.Type are
\* m.MetricKey.Name and m.MetricKey.Type.
\* The series of the model: one of every type, and a second counter.
MetricKey ==
  [Name : {"requests"}, Type : Types] \cup {[Name |-> "users", Type |-> "counter"]}
UDPMetric == [MetricKey : MetricKey, Value : Values, SampleRate : SampleRates]
\* Peers send sets, well encoded or not, and states of the types that do not merge.
JSONMetric ==
  {o \in [MetricKey : [Name : {"requests"}, Type : Types], Value : Encodings] :
     o.MetricKey.Type = "set" \/ o.Value = "valid"}

NoMsg == [none |-> TRUE]
NoRef == -1

\* ------------------------------------------------------------ accumulators
\* The samplers are opaque to the worker: an accumulator is the record of the
\* calls it has received since construction.
NewCounter(name) == [kind |-> "Counter", name |-> name, calls |-> <<>>]
NewGauge(name) == [kind |-> "Gauge", name |-> name, calls |-> <<>>]
NewHist(name) == [kind |-> "Histo", name |-> name, calls |-> <<>>]
NewSet(name) == [kind |-> "Set", name |-> name, calls |-> <<>>]

Sample(acc, value, rate) ==
  [acc EXCEPT !.calls = Append(@, [op |-> "sample", value |-> value, rate |-> rate])]

\* Combine's error result: the encoded state does not decode
CombineErr(enc) == enc # "valid"

\* Combine's effect on the accumulator: a rejected state leaves it as it was
Combine(acc, enc) ==
  IF CombineErr(enc) THEN acc
  ELSE [acc EXCEPT !.calls = Append(@, [op |-> "combine", value |-> enc])]

\* ---------------------------------------------------------- WorkerMetrics
EmptyMap == [k \in {} |-> 0]
Fields == {"counters", "gauges", "histograms", "sets", "timers"}

NewWorkerMetrics ==
  [counters |-> EmptyMap, gauges |-> EmptyMap, histograms |-> EmptyMap,
   sets |-> EmptyMap, timers |-> EmptyMap]

\* Ensure without the presence test
EnsureReplaces(map, key, new) == (key :> new) @@ map

\* `if !present { map[key] = new }`
Ensure(map, key, new) == IF key \in DOMAIN map THEN map ELSE (key :> new) @@ map

VARIABLES
  heap,       \* WorkerMetrics cells: ref -> five maps MetricKey -> accumulator
  wm,         \* w.wm: the ref of the live cell
  processed,  \* w.processed
  imported,   \* w.imported
  mutex,      \* w.mutex: "free" or the goroutine holding it
  WorkChan,   \* the sample a blocked sender offers on the unbuffered channel, or NoMsg
  QuitChan,   \* "open" or "closed"
  pcW,        \* dispatch loop: "select", "lock", "cs", "returned"
  m,          \* the sample Work has received and is processing, or NoMsg
  pcI,        \* importer: "idle", "cs"
  other,      \* the JSONMetric being imported, or NoMsg
  pcF,        \* flush coordinator: "idle", "cs", "report"
  ret,        \* Flush's local ret (a ref), or NoRef
  fprocessed, \* Flush's local processed
  fimported,  \* Flush's local imported
  snapshot,   \* the value the last Flush call returned to its caller (a ref), or NoRef
  stats,      \* what the last Flush call sent to w.stats, or NoMsg
  logged,     \* number of Error-level lines written to w.logger
  lastLog,    \* the last Error-level line, or NoMsg
  crashed,    \* the process has panicked
  nCalls,     \* history: samples offered, imports and flushes started
  window,     \* history: per MetricKey, the operations applied since the last swap
  captured,   \* history: window at the swap of the last Flush call
  delivered,  \* history: per MetricKey, the samples Work received for this window
  nStops,     \* history: Stop calls
  doneP,      \* history: ProcessMetric calls completed
  doneI,      \* history: ImportMetric calls completed
  sumP,       \* history: sum of the processed counts the Flush calls captured
  sumI,       \* history: sum of the imported counts the Flush calls captured
  mutexB,     \* the mutex of a second worker: "free" or "held"
  pcB         \* a caller of the second worker: "idle", "cs"

vars == <<heap, wm, processed, imported, mutex, WorkChan, QuitChan, pcW, m, pcI,
          other, pcF, ret, fprocessed, fimported, snapshot, stats, logged,
          lastLog, crashed, nCalls, window, captured, delivered, nStops,
          doneP, doneI, sumP, sumI, mutexB, pcB>>

KnownTypes == {"counter", "gauge", "histogram", "set", "timer"}
EmptyWindow == [k \in MetricKey |-> <<>>]

\* NewRef when the maps are cleared in place instead of allocated
NewRefInPlace == wm

\* a ref no cell uses: cells are numbered in the order NewWorkerMetrics makes them
NewRef == wm + 1

\* the cells still referenced once the refs in `keep` are the only ones held
Retain(h, keep) == [r \in (DOMAIN h) \cap keep |-> h[r]]

\* NewWorker
Init ==
  /\ heap = (0 :> NewWorkerMetrics)
  /\ wm = 0
  /\ processed = 0
  /\ imported = 0
  /\ mutex = "free"
  /\ WorkChan = NoMsg
  /\ QuitChan = "open"
  /\ pcW = "select"
  /\ m = NoMsg
  /\ pcI = "idle"
  /\ other = NoMsg
  /\ pcF = "idle"
  /\ ret = NoRef
  /\ fprocessed = 0
  /\ fimported = 0
  /\ snapshot = NoRef
  /\ stats = NoMsg
  /\ logged = 0
  /\ lastLog = NoMsg
  /\ crashed = FALSE
  /\ nCalls = 0
  /\ window = EmptyWindow
  /\ captured = EmptyWindow
  /\ delivered = EmptyWindow
  /\ nStops = 0
  /\ doneP = 0
  /\ doneI = 0
  /\ sumP = 0
  /\ sumI = 0
  /\ mutexB = "free"
  /\ pcB = "idle"

\* w.logger....Error(msg) with its field.  The Debug lines ("New counter", ...)
\* are left out: nothing reads them.
LogError(msg, field) ==
  /\ logged' = logged + 1
  /\ lastLog' = [msg |-> msg, field |-> field]

\* ------------------------------------------------------------- the router
\* A sender blocks on the unbuffered WorkChan until Work receives; after Work
\* has returned it blocks for good.  The value sent is the number of the call.
Send(msg) ==
  /\ ~crashed
  /\ nCalls < MaxCalls
  /\ WorkChan = NoMsg
  /\ msg.Value = nCalls + 1
  /\ WorkChan' = msg
  /\ nCalls' = nCalls + 1
  /\ UNCHANGED <<heap, wm, processed, imported, mutex, QuitChan, pcW, m, pcI,
                 other, pcF, ret, fprocessed, fimported, snapshot, stats,
                 logged, lastLog, crashed, window, captured, delivered>>
  /\ UNCHANGED <<nStops, doneP, doneI, sumP, sumI, mutexB, pcB>>

\* ------------------------------------------------------------------- Work
\* select: case m := <-w.WorkChan
WorkReceive ==
  /\ ~crashed
  /\ pcW = "select"
  /\ WorkChan # NoMsg
  /\ m' = WorkChan
  /\ WorkChan' = NoMsg
  /\ pcW' = "lock"
  /\ delivered' = [delivered EXCEPT ![WorkChan.MetricKey] =
                     Append(@, [op |-> "sample", value |-> WorkChan.Value,
                                rate |-> WorkChan.SampleRate])]
  /\ UNCHANGED <<heap, wm, processed, imported, mutex, QuitChan, pcI, other,
                 pcF, ret, fprocessed, fimported, snapshot, stats, logged,
                 lastLog, crashed, nCalls, window, captured>>
  /\ UNCHANGED <<nStops, doneP, doneI, sumP, sumI, mutexB, pcB>>

\* WorkQuit with QuitChan also looked at between the receive and ProcessMetric
WorkQuitAfterReceive ==
  /\ ~crashed
  /\ pcW \in {"select", "lock"}
  /\ QuitChan = "closed"
  /\ LogError("Stopping", "worker")
  /\ pcW' = "returned"
  /\ UNCHANGED <<heap, wm, processed, imported, mutex, WorkChan, QuitChan, m,
                 pcI, other, pcF, ret, fprocessed, fimported, snapshot, stats,
                 crashed, nCalls, window, captured, delivered>>
  /\ UNCHANGED <<nStops, doneP, doneI, sumP, sumI, mutexB, pcB>>

\* select: case <-w.QuitChan.  A closed channel is always ready; when WorkChan
\* is ready too, select takes either case.
WorkQuit ==
  /\ ~crashed
  /\ pcW = "select"
  /\ QuitChan = "closed"
  /\ LogError("Stopping", "worker")
  /\ pcW' = "returned"
  /\ UNCHANGED <<heap, wm, processed, imported, mutex, WorkChan, QuitChan, m,
                 pcI, other, pcF, ret, fprocessed, fimported, snapshot, stats,
                 crashed, nCalls, window, captured, delivered>>
  /\ UNCHANGED <<nStops, doneP, doneI, sumP, sumI, mutexB, pcB>>

\* ---------------------------------------------------------- ProcessMetric
\* w.mutex.Lock()
ProcessMetricLock ==
  /\ ~crashed
  /\ pcW = "lock"
  /\ mutex = "free"
  /\ mutex' = "work"
  /\ pcW' = "cs"
  /\ UNCHANGED <<heap, wm, processed, imported, WorkChan, QuitChan, m, pcI,
                 other, pcF, ret, fprocessed, fimported, snapshot, stats,
                 logged, lastLog, crashed, nCalls, window, captured, delivered>>
  /\ UNCHANGED <<nStops, doneP, doneI, sumP, sumI, mutexB, pcB>>

\* SampleInto without the `if !present`: a new accumulator on every sample
SampleIntoFresh(map, key, new, mm) ==
  LET mp == (key :> new) @@ map
  IN  [mp EXCEPT ![key] = Sample(@, mm.Value, mm.SampleRate)]

\* `if !present { map[key] = New(...) }; map[key].Sample(value, rate)`
SampleInto(map, key, new, mm) ==
  LET mp == Ensure(map, key, new)
  IN  [mp EXCEPT ![key] = Sample(@, mm.Value, mm.SampleRate)]


\* ProcessSwitch with the timer case writing to w.wm.histograms
ProcessSwitchTimerAsHistogram(w, mm) ==
  LET key == mm.MetricKey
  IN  CASE key.Type = "counter" ->
             [w EXCEPT !.counters = SampleInto(@, key, NewCounter(key.Name), mm)]
        [] key.Type = "gauge" ->
             [w EXCEPT !.gauges = SampleInto(@, key, NewGauge(key.Name), mm)]
        [] key.Type = "histogram" ->
             [w EXCEPT !.histograms = SampleInto(@, key, NewHist(key.Name), mm)]
        [] key.Type = "set" ->
             [w EXCEPT !.sets = SampleInto(@, key, NewSet(key.Name), mm)]
        [] key.Type = "timer" ->
             [w EXCEPT !.histograms = SampleInto(@, key, NewHist(key.Name), mm)]
        [] OTHER -> w

\* switch m.Type: the WorkerMetrics after the sample.  Values are of the
\* representation their type expects, so the assertions m.Value.(float64) and
\* m.Value.(string) hold.
ProcessSwitch(w, mm) ==
  LET key == mm.MetricKey
  IN  CASE key.Type = "counter" ->
             [w EXCEPT !.counters = SampleInto(@, key, NewCounter(key.Name), mm)]
        [] key.Type = "gauge" ->
             [w EXCEPT !.gauges = SampleInto(@, key, NewGauge(key.Name), mm)]
        [] key.Type = "histogram" ->
             [w EXCEPT !.histograms = SampleInto(@, key, NewHist(key.Name), mm)]
        [] key.Type = "set" ->
             [w EXCEPT !.sets = SampleInto(@, key, NewSet(key.Name), mm)]
        [] key.Type = "timer" ->
             [w EXCEPT !.timers = SampleInto(@, key, NewHist(key.Name), mm)]
        [] OTHER -> w

\* ProcessLog with no default case
ProcessLogSilent(mm) == UNCHANGED <<logged, lastLog>>

\* switch m.Type: the default case logs
ProcessLog(mm) ==
  IF mm.MetricKey.Type \in KnownTypes
  THEN UNCHANGED <<logged, lastLog>>
  ELSE LogError("Unknown metric type for processing", mm.MetricKey.Type)

\* w.processed++
ProcessCount ==
  /\ processed' = processed + 1
  /\ UNCHANGED imported

\* ProcessMetricBody with the Unlock at the end of the recognized cases instead
\* of deferred: the default case returns with the mutex held
ProcessMetricBodyNoDefer ==
  /\ ~crashed
  /\ pcW = "cs"
  /\ ProcessCount
  /\ heap' = [heap EXCEPT ![wm] = ProcessSwitch(@, m)]
  /\ ProcessLog(m)
  /\ mutex' = IF m.MetricKey.Type \in KnownTypes THEN "free" ELSE mutex
  /\ pcW' = "select"
  /\ m' = NoMsg
  /\ window' = [window EXCEPT ![m.MetricKey] =
                  Append(@, [op |-> "sample", value |-> m.Value, rate |-> m.SampleRate])]
  /\ UNCHANGED <<wm, WorkChan, QuitChan, pcI, other, pcF, ret, fprocessed,
                 fimported, snapshot, stats, crashed, nCalls, captured,
                 delivered>>
  /\ doneP' = doneP + 1
  /\ UNCHANGED <<nStops, doneI, sumP, sumI, mutexB, pcB>>

\* w.processed++, the switch, and the deferred w.mutex.Unlock()
ProcessMetricBody ==
  /\ ~crashed
  /\ pcW = "cs"
  /\ ProcessCount
  /\ heap' = [heap EXCEPT ![wm] = ProcessSwitch(@, m)]
  /\ ProcessLog(m)
  /\ mutex' = "free"
  /\ pcW' = "select"
  /\ m' = NoMsg
  /\ window' = [window EXCEPT ![m.MetricKey] =
                  Append(@, [op |-> "sample", value |-> m.Value, rate |-> m.SampleRate])]
  /\ UNCHANGED <<wm, WorkChan, QuitChan, pcI, other, pcF, ret, fprocessed,
                 fimported, snapshot, stats, crashed, nCalls, captured,
                 delivered>>
  /\ doneP' = doneP + 1
  /\ UNCHANGED <<nStops, doneI, sumP, sumI, mutexB, pcB>>

\* ----------------------------------------------------------- ImportMetric
\* ImportMetricLock without w.mutex.Lock()
ImportMetricLockUnlocked(o) ==
  /\ ~crashed
  /\ nCalls < MaxCalls
  /\ pcI = "idle"
  /\ pcI' = "cs"
  /\ other' = o
  /\ nCalls' = nCalls + 1
  /\ UNCHANGED <<heap, wm, processed, imported, mutex, WorkChan, QuitChan, pcW,
                 m, pcF, ret, fprocessed, fimported, logged, lastLog, crashed,
                 window, delivered>>
  /\ UNCHANGED <<snapshot, stats, captured>>
  /\ UNCHANGED <<nStops, doneP, doneI, sumP, sumI, mutexB, pcB>>

\* the call and w.mutex.Lock()
ImportMetricLock(o) ==
  /\ ~crashed
  /\ nCalls < MaxCalls
  /\ pcI = "idle"
  /\ mutex = "free"
  /\ mutex' = "import"
  /\ pcI' = "cs"
  /\ other' = o
  /\ nCalls' = nCalls + 1
  /\ UNCHANGED <<heap, wm, processed, imported, WorkChan, QuitChan, pcW, m, pcF,
                 ret, fprocessed, fimported, snapshot, stats, logged, lastLog,
                 crashed, window, captured, delivered>>
  /\ UNCHANGED <<nStops, doneP, doneI, sumP, sumI, mutexB, pcB>>

\* ImportSwitch with the accumulator thrown away when Combine fails
ImportSwitchDropsOnError(w, o) ==
  LET key == o.MetricKey
  IN  CASE key.Type = "set" ->
             LET mp == Ensure(w.sets, key, NewSet(key.Name))
             IN  IF CombineErr(o.Value)
                 THEN [w EXCEPT !.sets = [k \in DOMAIN mp \ {key} |-> mp[k]]]
                 ELSE [w EXCEPT !.sets = [mp EXCEPT ![key] = Combine(@, o.Value)]]
        [] OTHER -> w

\* ImportSwitch with every type merged as a set
ImportSwitchAnyType(w, o) ==
  LET key == o.MetricKey
      mp == Ensure(w.sets, key, NewSet(key.Name))
  IN  [w EXCEPT !.sets = [mp EXCEPT ![key] = Combine(@, o.Value)]]

\* switch other.Type: the WorkerMetrics after the import
ImportSwitch(w, o) ==
  LET key == o.MetricKey
  IN  CASE key.Type = "set" ->
             LET mp == Ensure(w.sets, key, NewSet(key.Name))
             IN  [w EXCEPT !.sets = [mp EXCEPT ![key] = Combine(@, o.Value)]]
        [] OTHER -> w

\* switch other.Type: a failed Combine and the default case log
ImportLog(o) ==
  IF o.MetricKey.Type = "set"
  THEN IF CombineErr(o.Value)
       THEN LogError("Could not merge sets", "error")
       ELSE UNCHANGED <<logged, lastLog>>
  ELSE LogError("Unknown metric type for importing", o.MetricKey.Type)

\* ImportCount with the import counted as processed too
ImportCountAlsoProcessed ==
  /\ imported' = imported + 1
  /\ processed' = processed + 1

\* w.imported++: an import is not counted as processed
ImportCount ==
  /\ imported' = imported + 1
  /\ UNCHANGED processed

\* w.imported++, the switch, and the deferred w.mutex.Unlock()
ImportMetricBody ==
  /\ ~crashed
  /\ pcI = "cs"
  /\ ImportCount
  /\ heap' = [heap EXCEPT ![wm] = ImportSwitch(@, other)]
  /\ ImportLog(other)
  /\ mutex' = "free"
  /\ pcI' = "idle"
  /\ other' = NoMsg
  /\ window' = [window EXCEPT ![other.MetricKey] =
                  Append(@, [op |-> "import", value |-> other.Value])]
  /\ UNCHANGED <<wm, WorkChan, QuitChan, pcW, m, pcF, ret, fprocessed,
                 fimported, snapshot, stats, crashed, nCalls, captured,
                 delivered>>
  /\ doneI' = doneI + 1
  /\ UNCHANGED <<nStops, doneP, sumP, sumI, mutexB, pcB>>

\* ------------------------------------------------------------------ Flush
\* the call and w.mutex.Lock(); the caller has let go of the previous snapshot
FlushLock ==
  /\ ~crashed
  /\ nCalls < MaxCalls
  /\ pcF = "idle"
  /\ mutex = "free"
  /\ mutex' = "flush"
  /\ pcF' = "cs"
  /\ nCalls' = nCalls + 1
  /\ snapshot' = NoRef
  /\ heap' = Retain(heap, {wm})
  /\ stats' = NoMsg
  /\ captured' = EmptyWindow
  /\ UNCHANGED <<wm, processed, imported, WorkChan, QuitChan, pcW, m, pcI,
                 other, ret, fprocessed, fimported, logged, lastLog, crashed,
                 window, delivered>>
  /\ UNCHANGED <<nStops, doneP, doneI, sumP, sumI, mutexB, pcB>>

\* FlushCapture with `imported := w.processed`
FlushCaptureProcessedTwice ==
  /\ ret' = wm
  /\ fprocessed' = processed
  /\ fimported' = processed

\* FlushCapture placed after FlushReset: it captures what was just installed
FlushCaptureAfterReset ==
  /\ ret' = NewRef
  /\ fprocessed' = 0
  /\ fimported' = 0

\* ret := w.wm; processed := w.processed; imported := w.imported
FlushCapture ==
  /\ ret' = wm
  /\ fprocessed' = processed
  /\ fimported' = imported

\* FlushReset without `w.imported = 0`
FlushResetKeepsImported ==
  /\ wm' = NewRef
  /\ heap' = (NewRef :> NewWorkerMetrics) @@ heap
  /\ processed' = 0
  /\ UNCHANGED imported

\* FlushReset without `w.wm = NewWorkerMetrics()`: the worker keeps the maps it
\* has just handed out
FlushResetKeepsMaps ==
  /\ UNCHANGED <<wm, heap>>
  /\ processed' = 0
  /\ imported' = 0

\* FlushReset without `w.processed = 0`
FlushResetKeepsProcessed ==
  /\ wm' = NewRef
  /\ heap' = (NewRef :> NewWorkerMetrics) @@ heap
  /\ UNCHANGED processed
  /\ imported' = 0

\* w.wm = NewWorkerMetrics(); w.processed = 0; w.imported = 0
FlushReset ==
  /\ wm' = NewRef
  /\ heap' = (NewRef :> NewWorkerMetrics) @@ heap
  /\ processed' = 0
  /\ imported' = 0

\* FlushSwap without w.mutex.Unlock()
FlushSwapKeepsLock ==
  /\ ~crashed
  /\ pcF = "cs"
  /\ FlushCapture
  /\ FlushReset
  /\ UNCHANGED mutex
  /\ pcF' = "report"
  /\ captured' = window
  /\ window' = EmptyWindow
  /\ delivered' = [k \in MetricKey |->
                     IF m # NoMsg /\ m.MetricKey = k
                     THEN <<[op |-> "sample", value |-> m.Value, rate |-> m.SampleRate]>>
                     ELSE <<>>]
  /\ UNCHANGED <<WorkChan, QuitChan, pcW, m, pcI, other, snapshot, stats,
                 logged, lastLog, crashed, nCalls>>
  /\ sumP' = sumP + fprocessed'
  /\ sumI' = sumI + fimported'
  /\ UNCHANGED <<nStops, doneP, doneI, mutexB, pcB>>

\* the critical section and w.mutex.Unlock().  A sample Work has received and
\* not yet applied is the first delivery of the new window.
FlushSwap ==
  /\ ~crashed
  /\ pcF = "cs"
  /\ FlushCapture
  /\ FlushReset
  /\ mutex' = "free"
  /\ pcF' = "report"
  /\ captured' = window
  /\ window' = EmptyWindow
  /\ delivered' = [k \in MetricKey |->
                     IF m # NoMsg /\ m.MetricKey = k
                     THEN <<[op |-> "sample", value |-> m.Value, rate |-> m.SampleRate]>>
                     ELSE <<>>]
  /\ UNCHANGED <<WorkChan, QuitChan, pcW, m, pcI, other, snapshot, stats,
                 logged, lastLog, crashed, nCalls>>
  /\ sumP' = sumP + fprocessed'
  /\ sumI' = sumI + fimported'
  /\ UNCHANGED <<nStops, doneP, doneI, mutexB, pcB>>

\* the w.stats calls: the counts of the window and of what is flushed per type
FlushStats ==
  [processed |-> fprocessed, imported |-> fimported,
   flushed |-> [f \in Fields |-> Cardinality(DOMAIN heap[ret][f])]]

\* the w.stats calls and `return ret`
FlushReport ==
  /\ ~crashed
  /\ pcF = "report"
  /\ stats' = FlushStats
  /\ snapshot' = ret
  /\ ret' = NoRef
  /\ fprocessed' = 0
  /\ fimported' = 0
  /\ pcF' = "idle"
  /\ UNCHANGED <<heap, wm, processed, imported, mutex, WorkChan, QuitChan, pcW,
                 m, pcI, other, logged, lastLog, crashed, nCalls, window,
                 captured, delivered>>
  /\ UNCHANGED <<nStops, doneP, doneI, sumP, sumI, mutexB, pcB>>

\* ------------------------------------------------------------------- Stop
\* Stop that tolerates a closed channel
StopIdempotent ==
  /\ ~crashed
  /\ QuitChan' = "closed"
  /\ UNCHANGED crashed
  /\ UNCHANGED <<heap, wm, processed, imported, mutex, WorkChan, pcW, m, pcI,
                 other, pcF, ret, fprocessed, fimported, snapshot, stats,
                 logged, lastLog, nCalls, window, captured, delivered>>
  /\ nStops' = nStops + 1
  /\ UNCHANGED <<doneP, doneI, sumP, sumI, mutexB, pcB>>

\* close(w.QuitChan): closing a closed channel panics
Stop ==
  /\ ~crashed
  /\ IF QuitChan = "closed"
     THEN crashed' = TRUE /\ UNCHANGED QuitChan
     ELSE QuitChan' = "closed" /\ UNCHANGED crashed
  /\ UNCHANGED <<heap, wm, processed, imported, mutex, WorkChan, pcW, m, pcI,
                 other, pcF, ret, fprocessed, fimported, snapshot, stats,
                 logged, lastLog, nCalls, window, captured, delivered>>
  /\ nStops' = nStops + 1
  /\ UNCHANGED <<doneP, doneI, sumP, sumI, mutexB, pcB>>

\* ----------------------------------------------------- a second worker
\* OtherLock when the workers share one mutex
OtherLockShared ==
  /\ ~crashed
  /\ nCalls < MaxCalls
  /\ pcB = "idle"
  /\ mutexB = "free" /\ mutex = "free"
  /\ mutexB' = "held"
  /\ pcB' = "cs"
  /\ nCalls' = nCalls + 1
  /\ UNCHANGED <<heap, wm, processed, imported, mutex, WorkChan, QuitChan, pcW,
                 m, pcI, other, pcF, ret, fprocessed, fimported, snapshot,
                 stats, logged, lastLog, crashed, window, captured, delivered,
                 nStops, doneP, doneI, sumP, sumI>>

\* NewWorker gives every Worker a mutex of its own.  An operation on another
\* worker (its ProcessMetric, ImportMetric or Flush): w.mutex.Lock() on that
\* worker's mutex ...
OtherLock ==
  /\ ~crashed
  /\ nCalls < MaxCalls
  /\ pcB = "idle"
  /\ mutexB = "free"
  /\ mutexB' = "held"
  /\ pcB' = "cs"
  /\ nCalls' = nCalls + 1
  /\ UNCHANGED <<heap, wm, processed, imported, mutex, WorkChan, QuitChan, pcW,
                 m, pcI, other, pcF, ret, fprocessed, fimported, snapshot,
                 stats, logged, lastLog, crashed, window, captured, delivered,
                 nStops, doneP, doneI, sumP, sumI>>

\* ... and its w.mutex.Unlock()
OtherUnlock ==
  /\ ~crashed
  /\ pcB = "cs"
  /\ mutexB' = "free"
  /\ pcB' = "idle"
  /\ UNCHANGED <<heap, wm, processed, imported, mutex, WorkChan, QuitChan, pcW,
                 m, pcI, other, pcF, ret, fprocessed, fimported, snapshot,
                 stats, logged, lastLog, crashed, nCalls, window, captured,
                 delivered, nStops, doneP, doneI, sumP, sumI>>

Next ==
  \/ \E msg \in UDPMetric : Send(msg)
  \/ WorkReceive
  \/ WorkQuit
  \/ ProcessMetricLock
  \/ ProcessMetricBody
  \/ \E o \in JSONMetric : ImportMetricLock(o)
  \/ ImportMetricBody
  \/ FlushLock
  \/ FlushSwap
  \/ FlushReport
  \/ Stop

Spec == Init /\ [][Next]_vars

\* The goroutines that are running keep running: the select of Work proceeds
\* when one of its cases is ready, Lock returns when the mutex stays free, and
\* a goroutine inside a critical section gets out of it.
Fairness ==
  /\ WF_vars(WorkReceive \/ WorkQuit)
  /\ WF_vars(ProcessMetricLock)
  /\ WF_vars(ProcessMetricBody)
  /\ WF_vars(ImportMetricBody)
  /\ WF_vars(FlushSwap)

FairSpec == Spec /\ Fairness

\* the worker next to a second one
NextPool ==
  \/ Next
  \/ OtherLock
  \/ OtherUnlock

SpecPool == Init /\ [][NextPool]_vars

\* ======================================================================
\* Properties
\* ======================================================================
Live == heap[wm]
IsEmpty(w) == \A f \in Fields : DOMAIN w[f] = {}
NoHistory(h) == \A k \in MetricKey : h[k] = <<>>

FieldOf(type) ==
  CASE type = "counter" -> "counters"
    [] type = "gauge" -> "gauges"
    [] type = "histogram" -> "histograms"
    [] type = "set" -> "sets"
    [] type = "timer" -> "timers"

\* the number of operations `op` in a history
RECURSIVE CountOps(_, _, _)
CountOps(h, keys, op) ==
  IF keys = {} THEN 0
  ELSE LET k == CHOOSE x \in keys : TRUE
       IN  Len(SelectSeq(h[k], LAMBDA e : e.op = op)) + CountOps(h, keys \ {k}, op)

\* C1: right after NewWorker and right after the swap of any Flush, until the
\* next ProcessMetric or ImportMetric, both counters are zero and the five live
\* mappings are empty; a Flush with no ProcessMetric or ImportMetric since the
\* previous swap captures five empty mappings and zero counters, and hands
\* them out.
WindowReset ==
  /\ NoHistory(window) => IsEmpty(Live) /\ processed = 0 /\ imported = 0
  /\ (pcF = "report" /\ NoHistory(captured)) =>
       IsEmpty(heap[ret]) /\ fprocessed = 0 /\ fimported = 0
  /\ (snapshot # NoRef /\ NoHistory(captured)) =>
       IsEmpty(heap[snapshot]) /\ stats.processed = 0 /\ stats.imported = 0

\* a second Flush has returned an empty window, after a first one that held
\* the one operation made so far
WindowResetWitness ==
  /\ wm = 2 /\ snapshot # NoRef /\ nCalls = 3
  /\ NoHistory(captured) /\ NoHistory(window)
  /\ WorkChan = NoMsg /\ m = NoMsg /\ pcI = "idle"
  /\ IsEmpty(Live) /\ IsEmpty(heap[snapshot])

\* C2: every ProcessMetric call adds exactly 1 to processed and leaves imported
\* alone; every ImportMetric call adds exactly 1 to imported and leaves
\* processed alone, whatever the type.
CountersSeparate ==
  [][ /\ (pcW = "cs" /\ pcW' = "select") =>
           (processed' = processed + 1 /\ imported' = imported)
      /\ (pcI = "cs" /\ pcI' = "idle") =>
           (imported' = imported + 1 /\ processed' = processed) ]_vars

\* a sample of an unknown type and an import of an unsupported type have both
\* been counted in this window
CountersSeparateWitness ==
  /\ processed = 1 /\ imported = 1
  /\ \E k \in MetricKey : k.Type = "bogus" /\ Len(window[k]) = 2

\* an operation that reaches the accumulator of series k: a sample of a known
\* type, or a set import whose state decodes
IsUpdate(k, e) ==
  \/ e.op = "sample" /\ k.Type \in KnownTypes
  \/ e.op = "import" /\ k.Type = "set" /\ e.value = "valid"

\* the call the accumulator receives for it
CallOf(e) == IF e.op = "sample" THEN e ELSE [op |-> "combine", value |-> e.value]

\* the calls an accumulator of series k has received after the operations hk
Fold(k, hk) ==
  LET u == SelectSeq(hk, LAMBDA e : IsUpdate(k, e))
  IN  [i \in 1..Len(u) |-> CallOf(u[i])]

\* the calls the accumulator of series k has received in w; none if w has none
AccCalls(w, k) ==
  IF k.Type \in KnownTypes /\ k \in DOMAIN w[FieldOf(k.Type)]
  THEN w[FieldOf(k.Type)][k].calls
  ELSE <<>>

HasCall(w, k, c) == \E j \in 1..Len(AccCalls(w, k)) : AccCalls(w, k)[j] = c
SamplesOf(hk) == SelectSeq(hk, LAMBDA e : e.op = "sample")
Front(q) == SubSeq(q, 1, Len(q) - 1)

\* the snapshot of the last Flush call, once its critical section is over
Flushed == IF pcF = "report" THEN ret ELSE snapshot

\* the samples among the operations hk that reach the accumulator of series k
Sampled(k, hk) == SelectSeq(hk, LAMBDA e : e.op = "sample" /\ IsUpdate(k, e))

\* C3 as stated: when Flush returns, its snapshot holds every sample that
\* ProcessMetric applied to an accumulator before the return, and the count it
\* captured is that of the samples applied before the swap.
SnapshotHasAllBeforeReturn ==
  [][ (pcF = "report" /\ pcF' = "idle") =>
        /\ \A k \in MetricKey :
             /\ \A i \in 1..Len(Sampled(k, captured'[k])) :
                  HasCall(heap'[snapshot'], k, Sampled(k, captured'[k])[i])
             /\ \A i \in 1..Len(Sampled(k, window'[k])) :
                  HasCall(heap'[snapshot'], k, Sampled(k, window'[k])[i])
        /\ stats'.processed = CountOps(captured', MetricKey, "sample") ]_vars

\* C3, amended: the snapshot of a Flush holds exactly the accumulator updates
\* applied before its swap (since the previous one), in order; an update applied
\* after the swap, even before Flush returns, is not in it, and the processed
\* count Flush captured is the number of samples applied before the swap.
SnapshotIsolation ==
  Flushed # NoRef =>
    /\ \A k \in MetricKey : AccCalls(heap[Flushed], k) = Fold(k, captured[k])
    /\ pcF = "report" => fprocessed = CountOps(captured, MetricKey, "sample")
    /\ snapshot # NoRef => stats.processed = CountOps(captured, MetricKey, "sample")

\* Flush has swapped a window with an update in it and is still reporting,
\* while ProcessMetric has applied a sample to the new window
SnapshotIsolationWitness ==
  /\ pcF = "report"
  /\ \E k \in MetricKey : k.Type \in KnownTypes /\ captured[k] # <<>>
  /\ \E k \in MetricKey : k.Type \in KnownTypes /\ SamplesOf(window[k]) # <<>>

\* C4 as stated: Work takes the QuitChan case only when no sample is offered on
\* WorkChan, and returns with every received sample processed.
QuitOnlyWhenIdle ==
  [][ (pcW # "returned" /\ pcW' = "returned") =>
        /\ WorkChan = NoMsg
        /\ m' = NoMsg
        /\ \A k \in MetricKey : delivered'[k] = SamplesOf(window'[k]) ]_vars

\* C4, amended: Work returns only once QuitChan is closed and with no sample in
\* hand: every sample it received has been through ProcessMetric.  (A sample
\* still offered on WorkChan may be left there.)
NoInFlightDrop ==
  pcW = "returned" =>
    /\ QuitChan = "closed"
    /\ m = NoMsg
    /\ \A k \in MetricKey : delivered[k] = SamplesOf(window[k])

\* Work has processed a sample and returned, and a sample is left on WorkChan
NoInFlightDropWitness ==
  /\ pcW = "returned"
  /\ WorkChan # NoMsg
  /\ \E k \in MetricKey : delivered[k] # <<>>

\* C5: an import for a set series that has an accumulator, with a state Combine
\* rejects, leaves the live WorkerMetrics as it was (the entry kept, not
\* replaced, its content the same), adds 1 to imported, logs the error and
\* returns with the mutex released.
MergeFailureIsVoid ==
  [][ ( /\ pcI = "cs" /\ pcI' = "idle"
        /\ other.MetricKey.Type = "set"
        /\ other.MetricKey \in DOMAIN Live.sets
        /\ CombineErr(other.Value) ) =>
        /\ wm' = wm
        /\ heap'[wm] = heap[wm]
        /\ imported' = imported + 1
        /\ processed' = processed
        /\ logged' = logged + 1
        /\ lastLog'.msg = "Could not merge sets"
        /\ mutex' = "free"
        /\ ~crashed' ]_vars

\* a set accumulator with content has last seen a rejected import
MergeFailureIsVoidWitness ==
  /\ lastLog # NoMsg /\ lastLog.msg = "Could not merge sets"
  /\ \E k \in DOMAIN Live.sets :
       /\ Live.sets[k].calls # <<>>
       /\ Len(window[k]) >= 2
       /\ window[k][Len(window[k])] = [op |-> "import", value |-> "corrupt"]

\* C6 as stated: a series whose only operation in a window was dropped or was
\* an import that Combine rejected has no entry in the snapshot of that window.
AbsenceOnly ==
  Flushed # NoRef =>
    \A k \in MetricKey :
      (Len(captured[k]) = 1 /\ ~IsUpdate(k, captured[k][1])) =>
        \A f \in Fields : k \notin DOMAIN heap[Flushed][f]

\* C7: ProcessMetric on a sample of an unknown type adds 1 to processed, leaves
\* every mapping and accumulator as it was, logs the error and returns with the
\* mutex released.
UnknownTypeDropped ==
  [][ ( /\ pcW = "cs" /\ pcW' = "select"
        /\ m.MetricKey.Type \notin {"counter", "gauge", "histogram", "set", "timer"} ) =>
        /\ processed' = processed + 1
        /\ wm' = wm
        /\ heap' = heap
        /\ logged' = logged + 1
        /\ lastLog' = [msg |-> "Unknown metric type for processing",
                       field |-> m.MetricKey.Type]
        /\ mutex' = "free"
        /\ ~crashed' ]_vars

\* a sample of an unknown type has been processed beside a live accumulator
UnknownTypeDroppedWitness ==
  /\ lastLog # NoMsg /\ lastLog.msg = "Unknown metric type for processing"
  /\ processed = 2
  /\ ~IsEmpty(Live)
  /\ \E k \in MetricKey : k.Type = "bogus" /\ window[k] # <<>>

\* C8: ImportMetric with a type other than set adds 1 to imported, leaves every
\* mapping and accumulator as it was, logs the error and returns with the mutex
\* released; an import that changes a mapping or an accumulator is a set import.
UnsupportedImportDropped ==
  [][ (pcI = "cs" /\ pcI' = "idle") =>
        /\ other.MetricKey.Type # "set" =>
             /\ imported' = imported + 1
             /\ processed' = processed
             /\ wm' = wm
             /\ heap' = heap
             /\ logged' = logged + 1
             /\ lastLog' = [msg |-> "Unknown metric type for importing",
                            field |-> other.MetricKey.Type]
             /\ mutex' = "free"
             /\ ~crashed'
        /\ heap' # heap => other.MetricKey.Type = "set" ]_vars

\* a counter import has been dropped while a counter of that series is live
UnsupportedImportDroppedWitness ==
  /\ lastLog = [msg |-> "Unknown metric type for importing", field |-> "counter"]
  /\ imported = 1
  /\ \E k \in DOMAIN Live.counters : window[k][Len(window[k])].op = "import"

\* C9 as stated: the value Flush returns carries the two counters of the window
\* beside the snapshot.
FlushReturnsCounters ==
  snapshot # NoRef =>
    /\ {"processed", "imported"} \subseteq DOMAIN heap[snapshot]
    /\ heap[snapshot].processed = CountOps(captured, MetricKey, "sample")
    /\ heap[snapshot].imported = CountOps(captured, MetricKey, "import")

\* C9, amended: Flush returns the WorkerMetrics alone, its five mappings; the
\* two counters go to the statistics sink, and are the numbers of ProcessMetric
\* and ImportMetric calls completed between the previous swap and this one.
FlushBoundary ==
  snapshot # NoRef =>
    /\ DOMAIN heap[snapshot] = Fields
    /\ stats.processed = CountOps(captured, MetricKey, "sample")
    /\ stats.imported = CountOps(captured, MetricKey, "import")

\* a Flush has returned a window with one sample and one import
FlushBoundaryWitness ==
  /\ snapshot # NoRef
  /\ stats.processed = 1
  /\ stats.imported = 1

\* C10: the accumulator of a series has received one sample call for each
\* sample of the series Work has received for this window and finished, in the
\* order received, whatever else was received in between; save for a set, it
\* has received nothing else.
RoutingInvariant ==
  \A k \in MetricKey :
    k.Type \in KnownTypes =>
      LET inflight == m # NoMsg /\ m.MetricKey = k
          done == IF inflight THEN Front(delivered[k]) ELSE delivered[k]
      IN  /\ SamplesOf(AccCalls(Live, k)) = done
          /\ k.Type # "set" => AccCalls(Live, k) = done
          /\ done # <<>> => k \in DOMAIN Live[FieldOf(k.Type)]

\* a series has received its first and third samples, another the second
RoutingInvariantWitness ==
  \E k, j \in MetricKey :
    /\ k # j
    /\ AccCalls(Live, k) = <<[op |-> "sample", value |-> 1, rate |-> 1],
                             [op |-> "sample", value |-> 3, rate |-> 1]>>
    /\ AccCalls(Live, j) = <<[op |-> "sample", value |-> 2, rate |-> 1]>>

\* the series of the type kept in mapping f that have an operation in h
SeenIn(h, f) ==
  {k \in MetricKey : k.Type \in KnownTypes /\ FieldOf(k.Type) = f /\ h[k] # <<>>}

\* the operations of h are all samples of recognized types
OnlyKnownSamples(h) ==
  \A k \in MetricKey :
    h[k] # <<>> => k.Type \in KnownTypes /\ SamplesOf(h[k]) = h[k]

\* C11: a Flush whose window held k ProcessMetric calls of recognized types and
\* no ImportMetric call reports processed = k and imported = 0, and returns
\* mappings that hold exactly one accumulator for each series seen of their
\* type, which has received as many sample calls as samples of the series
\* arrived.
SequentialWindow ==
  (snapshot # NoRef /\ OnlyKnownSamples(captured)) =>
    /\ stats.processed = CountOps(captured, MetricKey, "sample")
    /\ stats.imported = 0
    /\ \A f \in Fields :
         /\ DOMAIN heap[snapshot][f] = SeenIn(captured, f)
         /\ \A k \in SeenIn(captured, f) :
              Len(heap[snapshot][f][k].calls) = Len(captured[k])

\* a Flush has returned a window of two samples, one for each of two series
SequentialWindowWitness ==
  /\ snapshot # NoRef /\ OnlyKnownSamples(captured)
  /\ stats.processed = 2
  /\ \E k, j \in MetricKey :
       /\ k # j
       /\ Len(captured[k]) = 1 /\ Len(captured[j]) = 1
       /\ Len(AccCalls(heap[snapshot], k)) = 1
       /\ Len(AccCalls(heap[snapshot], j)) = 1

\* C12: once Flush has captured a snapshot, and after it has returned it, no
\* ProcessMetric or ImportMetric adds an entry to it or calls an accumulator in
\* it: the snapshot is a cell apart from the live one and never changes; the
\* next sample or set import for a series it holds creates a new accumulator
\* in the live snapshot, which has received that one call only.
OwnershipTransfer ==
  [][ /\ (Flushed # NoRef /\ Flushed' = Flushed) =>
           (heap'[Flushed] = heap[Flushed] /\ wm' # Flushed)
      /\ \A k \in MetricKey :
           ( /\ Flushed # NoRef /\ Flushed' = Flushed
             /\ k.Type \in KnownTypes
             /\ k \in DOMAIN heap[Flushed][FieldOf(k.Type)]
             /\ k \notin DOMAIN Live[FieldOf(k.Type)]
             /\ Len(window'[k]) = Len(window[k]) + 1
             /\ (window'[k][Len(window'[k])].op = "import" => k.Type = "set") ) =>
           /\ k \in DOMAIN Live'[FieldOf(k.Type)]
           /\ AccCalls(Live', k) = Fold(k, <<window'[k][Len(window'[k])]>>)
           /\ AccCalls(heap'[Flushed], k) = AccCalls(heap[Flushed], k) ]_vars

\* a series of the returned snapshot has been sampled again: the live snapshot
\* has a new accumulator with that sample, the returned one has the old sample
OwnershipTransferWitness ==
  \E k \in MetricKey :
    /\ snapshot # NoRef /\ snapshot # wm
    /\ AccCalls(heap[snapshot], k) = <<[op |-> "sample", value |-> 1, rate |-> 1]>>
    /\ AccCalls(Live, k) = <<[op |-> "sample", value |-> 3, rate |-> 1]>>

\* C13: the first Stop closes the quit signal, a second Stop is a fatal error
\* and not a no-op, and a closed signal is never open again.
StopOnce ==
  [][ /\ (nStops' = nStops + 1 /\ nStops = 0) =>
           (QuitChan = "open" /\ QuitChan' = "closed" /\ ~crashed')
      /\ (nStops' = nStops + 1 /\ nStops > 0) =>
           (QuitChan = "closed" /\ crashed')
      /\ QuitChan = "closed" => QuitChan' = "closed"
      /\ crashed => crashed' ]_vars

\* Stop has been called twice
StopOnceWitness == nStops = 2 /\ crashed /\ QuitChan = "closed"

\* a step that logs one of the three recoverable errors
ErrorStep == logged' = logged + 1 /\ lastLog'.msg # "Stopping"

\* C14: the step that meets an unrecognized sample type, an unsupported import
\* type or a failed merge releases the mutex, leaves the dispatch loop running
\* and touches neither the accumulators, nor Flush, nor the quit signal; and at
\* all times the accumulators and counters are what the operations of the
\* window make them with the erroneous ones counted and otherwise left out.
ErrorsAreLocal ==
  [][ /\ ErrorStep =>
           /\ mutex' = "free" /\ ~crashed'
           /\ (pcW = "cs" => pcW' = "select") /\ (pcW # "cs" => pcW' = pcW)
           /\ QuitChan' = QuitChan
           /\ <<pcF, ret, fprocessed, fimported, snapshot, stats>>' =
                <<pcF, ret, fprocessed, fimported, snapshot, stats>>
           /\ \A k \in MetricKey : AccCalls(Live', k) = AccCalls(Live, k)
      /\ \A k \in MetricKey : AccCalls(Live', k) = Fold(k, window'[k])
      /\ processed' = CountOps(window', MetricKey, "sample")
      /\ imported' = CountOps(window', MetricKey, "import") ]_vars

\* after a sample of an unknown type and then a set import that failed to
\* merge, a third call, a sample of that set, has reached its accumulator
ErrorsAreLocalWitness ==
  \E k, j \in MetricKey :
    /\ k.Type = "bogus" /\ j.Type = "set"
    /\ window[k] = <<[op |-> "sample", value |-> 1, rate |-> 1]>>
    /\ window[j] = <<[op |-> "import", value |-> "corrupt"],
                     [op |-> "sample", value |-> 3, rate |-> 1]>>
    /\ AccCalls(Live, j) = <<[op |-> "sample", value |-> 3, rate |-> 1]>>
    /\ logged = 2 /\ pcW = "select" /\ mutex = "free"

\* C15: every Flush acquires the mutex, then in its critical section captures
\* the live snapshot and both counters, installs a fresh empty snapshot, zeroes
\* the counters and releases the mutex, and only then emits statistics: none
\* is emitted while Flush holds the mutex.
FlushOrdering ==
  [][ /\ (pcF = "idle" /\ pcF' # "idle") =>
           /\ mutex = "free" /\ mutex' = "flush" /\ pcF' = "cs"
           /\ ret' = NoRef /\ stats' = NoMsg
           /\ <<wm, processed, imported>>' = <<wm, processed, imported>>
      /\ (pcF = "cs" /\ pcF' # "cs") =>
           /\ mutex = "flush" /\ mutex' = "free" /\ pcF' = "report"
           /\ ret' = wm /\ fprocessed' = processed /\ fimported' = imported
           /\ wm' # wm /\ IsEmpty(heap'[wm']) /\ heap'[ret'] = heap[wm]
           /\ processed' = 0 /\ imported' = 0
           /\ stats' = NoMsg
      /\ (stats' # stats /\ stats' # NoMsg) =>
           /\ pcF = "report" /\ pcF' = "idle"
           /\ mutex # "flush" /\ mutex' = mutex
           /\ stats'.processed = fprocessed /\ stats'.imported = fimported
      /\ (mutex' = "flush") = (pcF' = "cs") ]_vars

\* ProcessMetric is in its critical section while Flush is reporting
FlushOrderingWitness ==
  pcF = "report" /\ pcW = "cs" /\ mutex = "work" /\ fprocessed = 1

\* the critical sections of the worker that are executing
InCS == {p \in {"work", "import", "flush"} :
           \/ p = "work" /\ pcW = "cs"
           \/ p = "import" /\ pcI = "cs"
           \/ p = "flush" /\ pcF = "cs"}

\* C16: at most one of the critical sections of ProcessMetric, ImportMetric and
\* Flush of a worker is executing, and it holds the mutex; wm, processed and
\* imported change only in a step of the critical section that holds the
\* mutex; and an operation on another worker takes that worker's mutex
\* whenever it is free, whoever holds this worker's.
MutualExclusion ==
  /\ [](/\ Cardinality(InCS) <= 1
        /\ InCS = (IF mutex = "free" THEN {} ELSE {mutex})
        /\ (pcB = "cs") = (mutexB = "held")
        /\ (~crashed /\ nCalls < MaxCalls /\ pcB = "idle") => ENABLED OtherLock)
  /\ [][ (<<wm, heap[wm], processed, imported>>' # <<wm, heap[wm], processed, imported>>) =>
           (mutex # "free" /\ InCS = {mutex} /\ mutex' = "free") ]_vars

\* an operation on the other worker is in its critical section while Flush is
\* in this worker's
MutualExclusionWitness ==
  pcF = "cs" /\ mutex = "flush" /\ pcB = "cs" /\ mutexB = "held" /\ processed = 1

\* q starts with p
IsPrefix(p, q) == Len(p) <= Len(q) /\ SubSeq(q, 1, Len(p)) = p

\* C17: between two swaps, each live mapping is a function of MetricKey whose
\* key set only grows: an entry appears only in the ProcessMetric step of a
\* recognized sample of that key or in the ImportMetric step of a set import of
\* that key, into the mapping of the type; an entry that is there stays, and is
\* the same accumulator, with at most one call more.
MappingInvariant ==
  [][ wm' = wm =>
        \A f \in Fields :
          /\ DOMAIN heap[wm][f] \subseteq DOMAIN heap'[wm][f]
          /\ DOMAIN heap'[wm][f] \subseteq MetricKey
          /\ \A k \in DOMAIN heap[wm][f] :
               /\ heap'[wm][f][k].kind = heap[wm][f][k].kind
               /\ heap'[wm][f][k].name = heap[wm][f][k].name
               /\ IsPrefix(heap[wm][f][k].calls, heap'[wm][f][k].calls)
               /\ Len(heap'[wm][f][k].calls) <= Len(heap[wm][f][k].calls) + 1
          /\ \A k \in DOMAIN heap'[wm][f] \ DOMAIN heap[wm][f] :
               /\ k.Type \in KnownTypes /\ FieldOf(k.Type) = f
               /\ \/ pcW = "cs" /\ pcW' = "select" /\ m.MetricKey = k
                  \/ pcI = "cs" /\ pcI' = "idle" /\ other.MetricKey = k /\ f = "sets" ]_vars

\* a set created by an import has received a sample after it, and another
\* series has an accumulator of its own
MappingInvariantWitness ==
  \E k, j \in MetricKey :
    /\ k.Type = "set" /\ j.Type \in KnownTypes \ {"set"}
    /\ AccCalls(Live, k) = <<[op |-> "combine", value |-> "valid"],
                             [op |-> "sample", value |-> 3, rate |-> 1]>>
    /\ j \in DOMAIN Live[FieldOf(j.Type)]

\* a step that changes the live snapshot in place
Mutation == wm' = wm /\ heap'[wm] # heap[wm]

\* C18, as claimed: every mutation of the live snapshot is made by the Work
\* loop, inside its ProcessMetric.
SingleWriter ==
  [][ Mutation => (pcW = "cs" /\ mutex = "work" /\ pcW' = "select") ]_vars

\* C18, amended: the Work loop makes the ProcessMetric mutations only; an
\* ImportMetric mutation is made by its caller, another goroutine, while the
\* loop is anywhere but in its critical section, a received sample in hand or
\* not; the two never run their critical sections at once.
WritersSerialized ==
  [][ /\ Mutation =>
           \/ /\ pcW = "cs" /\ mutex = "work" /\ pcW' = "select"
              /\ pcI # "cs" /\ pcI' = pcI
              /\ imported' = imported
           \/ /\ pcI = "cs" /\ mutex = "import" /\ pcI' = "idle"
              /\ pcW # "cs" /\ pcW' = pcW /\ m' = m
              /\ processed' = processed
      /\ ~(pcW' = "cs" /\ pcI' = "cs") ]_vars

\* an import has been merged into a set while the Work loop held a sample of
\* that set, received before the import was called and not yet applied
WritersSerializedWitness ==
  /\ pcW = "lock" /\ m # NoMsg
  /\ m.MetricKey.Type = "set" /\ m.Value = 1
  /\ window[m.MetricKey] = <<[op |-> "import", value |-> "valid"]>>
  /\ AccCalls(Live, m.MetricKey) = <<[op |-> "combine", value |-> "valid"]>>

\* C19: every completed ProcessMetric and ImportMetric call is counted once, in
\* the live counter until the next swap and from then on in what that Flush
\* captured: the processed counts captured by all Flush calls so far plus the
\* live processed is the number of completed ProcessMetric calls, and likewise
\* for imported; and the calls a Flush counted are the ones whose accumulator
\* calls its snapshot holds.
Conservation ==
  /\ sumP + processed = doneP
  /\ sumI + imported = doneI
  /\ processed = CountOps(window, MetricKey, "sample")
  /\ imported = CountOps(window, MetricKey, "import")
  /\ \A k \in MetricKey : AccCalls(Live, k) = Fold(k, window[k])
  /\ pcF = "report" =>
       /\ fprocessed = CountOps(captured, MetricKey, "sample")
       /\ fimported = CountOps(captured, MetricKey, "import")
       /\ \A k \in MetricKey : AccCalls(heap[ret], k) = Fold(k, captured[k])

\* a Flush has captured one sample, and an import has completed since
ConservationWitness ==
  /\ sumP = 1 /\ sumI = 0 /\ processed = 0 /\ imported = 1
  /\ doneP = 1 /\ doneI = 1

\* C20: once the quit signal is closed, the Work loop returns, after the sample
\* it has in hand and the samples still offered to it, unless a second Stop
\* ends the process first; once it has returned it never receives a sample
\* and ProcessMetric never runs again.
Termination ==
  /\ (QuitChan = "closed") ~> (pcW = "returned" \/ crashed)
  /\ [][ pcW = "returned" =>
           /\ pcW' = "returned" /\ m' = m /\ doneP' = doneP
           /\ processed' <= processed
           /\ (WorkChan # NoMsg => WorkChan' = WorkChan)
           /\ delivered' = delivered \/ pcF = "cs" ]_vars

\* after a Flush the loop has applied a sample and then returned on the quit
\* signal; a sample offered since stays unreceived
TerminationWitness ==
  /\ pcW = "returned" /\ QuitChan = "closed" /\ ~crashed
  /\ doneP = 1 /\ wm = 1 /\ processed = 1
  /\ WorkChan # NoMsg /\ m = NoMsg

====
